---- MODULE Spec2Model ----
(***************************************************************************)
(* Short-ID allocator of back-end/api.py: static partition of the base-36  *)
(* identifier space across replicas (generate_anchor), per-replica minting *)
(* with recycling (generate_key / delete_id) and growth of the key length. *)
(* A key is a sequence of one-character strings, most significant first.   *)
(***************************************************************************)
EXTENDS Integers, Sequences, FiniteSets, TLC

(* ------------------------------ bounds --------------------------------- *)
\* calls (generate_key or delete_id) served by the replicas of one run
MaxCalls == 6
\* highest replica index that is run in the cluster model
MaxIndex == 2

\* generate_key calls in the run of the single replica the source configures
MaxSoloCalls == 1300

\* replica counts and key lengths for which the partition is computed
MaxPartCount == 12

MaxPartLength == 3

\* key lengths for which the encoding step is run on every integer
MaxCodecLength == 2

\* request threads inside one replica, and the calls they start together
NumThreads == 2

MaxThreadCalls == 3

(* ------------------------- program constants --------------------------- *)
\* api.py:47  chars_and_nums = string.digits + string.ascii_lowercase
chars_and_nums ==
  << "0", "1", "2", "3", "4", "5", "6", "7", "8", "9",
     "a", "b", "c", "d", "e", "f", "g", "h", "i", "j", "k", "l", "m",
     "n", "o", "p", "q", "r", "s", "t", "u", "v", "w", "x", "y", "z" >>

\* api.py:48  DIGIT_LENGTH = len(chars_and_nums)
DIGIT_LENGTH == Len(chars_and_nums)

\* api.py:46  KEY_LENGTH = 2 at module load
INITIAL_KEY_LENGTH == 2

(* ---------------------------- pure helpers ----------------------------- *)
RECURSIVE pow(_, _)
\* Python pow(b, e) for e >= 0
pow(b, e) == IF e = 0 THEN 1 ELSE b * pow(b, e - 1)

RECURSIVE str(_)
\* Python str(i) of a non-negative integer: decimal digits, no leading zero
str(i) ==
  IF i < 10 THEN << chars_and_nums[i + 1] >>
  ELSE str(i \div 10) \o << chars_and_nums[(i % 10) + 1] >>

(* ------------------------------- state --------------------------------- *)
VARIABLES
  REPLICAS,     \* api.py:44 replica count of the deployment (fixed per run)
  host_suffix,  \* api.py:42-43 per replica: its ordinal, as a string
  KEY_LENGTH,   \* api.py:46 per replica: current key length
  key_anchor,   \* api.py:67 per replica: last integer minted (next - 1)
  MAX,          \* api.py:67 per replica: last integer of the block
  active_ids,   \* api.py:71 per replica: keys in use
  deleted_ids,  \* api.py:72 per replica: released keys awaiting reuse
  calls,        \* history: number of calls served per replica
  last,         \* history: the call a replica served last
  prev,         \* history: the call a replica served before that one
  minted,       \* history: per replica, the fresh mints in order
  returned,     \* history: per replica, every key generate_key returned
  threads,      \* request threads inside one replica (threaded runs only)
  codec,        \* input and output of the encoding step (codec runs only)
  part          \* blocks computed by the replicas of one cluster (partition runs only)

vars == << REPLICAS, host_suffix, KEY_LENGTH, key_anchor, MAX, active_ids,
           deleted_ids, calls, last, prev, minted, returned, threads, codec, part >>

\* the deployment's configuration, never written after module load
config == << REPLICAS, host_suffix >>

\* the variables the allocator's own operations never touch
idle == << codec, part >>

\* the replicas that run in this behaviour
Pods == DOMAIN host_suffix

\* a partitioner whose blocks reach one integer into the next block
generate_anchor_overlap(suffix, length) ==
  IF \E i \in 0 .. (REPLICAS - 1) : suffix = str(i)
  THEN LET i == CHOOSE j \in 0 .. (REPLICAS - 1) : suffix = str(j)
           ID_SPACE == pow(DIGIT_LENGTH, length) \div REPLICAS
           anchor == ID_SPACE * i - 1
           my_max == anchor + ID_SPACE + 1
       IN  << anchor, my_max >>
  ELSE << -1, 0 >>

\* a partitioner that counts the replicas from 1
generate_anchor_from_one(suffix, length) ==
  IF \E i \in 0 .. (REPLICAS - 1) : suffix = str(i)
  THEN LET i == CHOOSE j \in 0 .. (REPLICAS - 1) : suffix = str(j)
           ID_SPACE == pow(DIGIT_LENGTH, length) \div REPLICAS
           anchor == ID_SPACE * (i + 1) - 1
           my_max == anchor + ID_SPACE
       IN  << anchor, my_max >>
  ELSE << -1, 0 >>

\* api.py:59-66 generate_anchor (REPLICAS is the module global).
\* The loop returns at the first i in range(REPLICAS) with
\* host_suffix == str(i), and (-1, 0) when no i matches.
generate_anchor(suffix, length) ==
  IF \E i \in 0 .. (REPLICAS - 1) : suffix = str(i)
  THEN LET i == CHOOSE j \in 0 .. (REPLICAS - 1) : suffix = str(j)
           ID_SPACE == pow(DIGIT_LENGTH, length) \div REPLICAS
           anchor == ID_SPACE * i - 1
           my_max == anchor + ID_SPACE
       IN  << anchor, my_max >>
  ELSE << -1, 0 >>

\* the encoding step without the padding to the current length
EncodeUnpadded(value, length) ==
  LET n == CHOOSE m \in 1 .. length :
             /\ value < pow(DIGIT_LENGTH, m)
             /\ (m = 1 \/ value >= pow(DIGIT_LENGTH, m - 1))
  IN  [ p \in 1 .. n |->
          chars_and_nums[((value \div pow(DIGIT_LENGTH, n - p)) % DIGIT_LENGTH) + 1] ]

\* an encoding step that writes the least significant symbol first
EncodeReversed(value, length) ==
  [ p \in 1 .. length |->
      chars_and_nums[((value \div pow(DIGIT_LENGTH, p - 1)) % DIGIT_LENGTH) + 1] ]

RECURSIVE floordiv_pow(_, _)
\* api.py:178 value // pow(DIGIT_LENGTH, e), as e floor divisions by
\* DIGIT_LENGTH (the same integer; the power itself can exceed 32 bits)
floordiv_pow(value, e) ==
  IF e = 0 THEN value ELSE floordiv_pow(value \div DIGIT_LENGTH, e - 1)

\* api.py:178-179 the encoding step of generate_key:
\* [(v // 36**i) % 36 for i in range(length-1, -1, -1)] joined over the alphabet
Encode(value, length) ==
  [ p \in 1 .. length |->
      chars_and_nums[(floordiv_pow(value, length - p) % DIGIT_LENGTH) + 1] ]

\* api.py:172 the exhaustion test that triggers the expansion
Exhausted(anchor, max) == anchor >= max - 1

\* api.py:169 deleted_ids.pop(): any member of the set may come out
PopChoices(pool) == pool

\* a generate_key that never looks into the recycle pool
UsePoolNever(pool) == FALSE

\* api.py:167 "if deleted_ids:" recycled keys are taken first
UsePool(pool) == pool # {}

\* a delete_id that recycles whatever it is given
TrackedAlways(active, del_id) == TRUE

\* api.py:188 "if del_id in active_ids:"
Tracked(active, del_id) == del_id \in active

\* history record of one call: op, the key released (arg) and whether it was
\* active (found), the key returned (ret) and whether it was a fresh mint
\* (fresh), and the recycle pool as the call found it (pool)
CallRecord(op, arg, found, ret, fresh, pool) ==
  [op |-> op, arg |-> arg, found |-> found, ret |-> ret, fresh |-> fresh, pool |-> pool]

NoCall == CallRecord("none", << >>, FALSE, << >>, FALSE, {})

(* ----------------------- serialized operations ------------------------- *)
\* a generate_key that advances key_anchor for a recycled key too
generate_key_recount(i) ==
  IF UsePool(deleted_ids[i])
  THEN \E key \in PopChoices(deleted_ids[i]) :
         /\ deleted_ids' = [deleted_ids EXCEPT ![i] = @ \ {key}]
         /\ active_ids' = [active_ids EXCEPT ![i] = @ \cup {key}]
         /\ last' = [last EXCEPT ![i] =
                       CallRecord("generate_key", << >>, FALSE, key, FALSE, deleted_ids[i])]
         /\ prev' = [prev EXCEPT ![i] = last[i]]
         /\ returned' = [returned EXCEPT ![i] = @ \cup {key}]
         /\ calls' = [calls EXCEPT ![i] = @ + 1]
         /\ key_anchor' = [key_anchor EXCEPT ![i] = @ + 1]
         /\ UNCHANGED << config, KEY_LENGTH, MAX, minted, threads, idle >>
  ELSE LET expand == Exhausted(key_anchor[i], MAX[i])
           length == IF expand THEN KEY_LENGTH[i] + 1 ELSE KEY_LENGTH[i]
           block  == IF expand THEN generate_anchor(host_suffix[i], length)
                               ELSE << key_anchor[i], MAX[i] >>
           anchor == block[1] + 1
           key    == Encode(anchor, length)
       IN  /\ KEY_LENGTH' = [KEY_LENGTH EXCEPT ![i] = length]
           /\ key_anchor' = [key_anchor EXCEPT ![i] = anchor]
           /\ MAX' = [MAX EXCEPT ![i] = block[2]]
           /\ active_ids' = [active_ids EXCEPT ![i] = @ \cup {key}]
           /\ last' = [last EXCEPT ![i] =
                         CallRecord("generate_key", << >>, FALSE, key, TRUE, deleted_ids[i])]
           /\ prev' = [prev EXCEPT ![i] = last[i]]
           /\ minted' = [minted EXCEPT ![i] =
                           Append(@, [value |-> anchor, length |-> length, key |-> key])]
           /\ returned' = [returned EXCEPT ![i] = @ \cup {key}]
           /\ calls' = [calls EXCEPT ![i] = @ + 1]
           /\ UNCHANGED << config, deleted_ids, threads, idle >>

\* api.py:165-181 generate_key, run to completion on replica i
generate_key(i) ==
  IF UsePool(deleted_ids[i])
  THEN \E key \in PopChoices(deleted_ids[i]) :
         /\ deleted_ids' = [deleted_ids EXCEPT ![i] = @ \ {key}]
         /\ active_ids' = [active_ids EXCEPT ![i] = @ \cup {key}]
         /\ last' = [last EXCEPT ![i] =
                       CallRecord("generate_key", << >>, FALSE, key, FALSE, deleted_ids[i])]
         /\ prev' = [prev EXCEPT ![i] = last[i]]
         /\ returned' = [returned EXCEPT ![i] = @ \cup {key}]
         /\ calls' = [calls EXCEPT ![i] = @ + 1]
         /\ UNCHANGED << config, KEY_LENGTH, key_anchor, MAX, minted, threads, idle >>
  ELSE LET expand == Exhausted(key_anchor[i], MAX[i])
           length == IF expand THEN KEY_LENGTH[i] + 1 ELSE KEY_LENGTH[i]
           block  == IF expand THEN generate_anchor(host_suffix[i], length)
                               ELSE << key_anchor[i], MAX[i] >>
           anchor == block[1] + 1
           key    == Encode(anchor, length)
       IN  /\ KEY_LENGTH' = [KEY_LENGTH EXCEPT ![i] = length]
           /\ key_anchor' = [key_anchor EXCEPT ![i] = anchor]
           /\ MAX' = [MAX EXCEPT ![i] = block[2]]
           /\ active_ids' = [active_ids EXCEPT ![i] = @ \cup {key}]
           /\ last' = [last EXCEPT ![i] =
                         CallRecord("generate_key", << >>, FALSE, key, TRUE, deleted_ids[i])]
           /\ prev' = [prev EXCEPT ![i] = last[i]]
           /\ minted' = [minted EXCEPT ![i] =
                           Append(@, [value |-> anchor, length |-> length, key |-> key])]
           /\ returned' = [returned EXCEPT ![i] = @ \cup {key}]
           /\ calls' = [calls EXCEPT ![i] = @ + 1]
           /\ UNCHANGED << config, deleted_ids, threads, idle >>

\* a delete_id whose recycle pool holds the last released key only
delete_id_one_slot(i, del_id) ==
  /\ IF Tracked(active_ids[i], del_id)
     THEN /\ active_ids' = [active_ids EXCEPT ![i] = @ \ {del_id}]
          /\ deleted_ids' = [deleted_ids EXCEPT ![i] = {del_id}]
     ELSE UNCHANGED << active_ids, deleted_ids >>
  /\ last' = [last EXCEPT ![i] =
                CallRecord("delete_id", del_id, del_id \in active_ids[i], << >>, FALSE,
                           deleted_ids[i])]
  /\ prev' = [prev EXCEPT ![i] = last[i]]
  /\ calls' = [calls EXCEPT ![i] = @ + 1]
  /\ UNCHANGED << config, KEY_LENGTH, key_anchor, MAX, minted, returned, threads, idle >>

\* a delete_id that leaves the released key in the active set
delete_id_keeps_active(i, del_id) ==
  /\ IF Tracked(active_ids[i], del_id)
     THEN /\ active_ids' = active_ids
          /\ deleted_ids' = [deleted_ids EXCEPT ![i] = @ \cup {del_id}]
     ELSE UNCHANGED << active_ids, deleted_ids >>
  /\ last' = [last EXCEPT ![i] =
                CallRecord("delete_id", del_id, del_id \in active_ids[i], << >>, FALSE,
                           deleted_ids[i])]
  /\ prev' = [prev EXCEPT ![i] = last[i]]
  /\ calls' = [calls EXCEPT ![i] = @ + 1]
  /\ UNCHANGED << config, KEY_LENGTH, key_anchor, MAX, minted, returned, threads, idle >>

\* api.py:187-192 delete_id, run to completion on replica i
delete_id(i, del_id) ==
  /\ IF Tracked(active_ids[i], del_id)
     THEN /\ active_ids' = [active_ids EXCEPT ![i] = @ \ {del_id}]
          /\ deleted_ids' = [deleted_ids EXCEPT ![i] = @ \cup {del_id}]
     ELSE UNCHANGED << active_ids, deleted_ids >>
  /\ last' = [last EXCEPT ![i] =
                CallRecord("delete_id", del_id, del_id \in active_ids[i], << >>, FALSE,
                           deleted_ids[i])]
  /\ prev' = [prev EXCEPT ![i] = last[i]]
  /\ calls' = [calls EXCEPT ![i] = @ + 1]
  /\ UNCHANGED << config, KEY_LENGTH, key_anchor, MAX, minted, returned, threads, idle >>

\* api.py:42-72 the module-level state of the replicas named in suffixes
\* (a function from replica to its host_suffix), for a replica count
Construct(count, suffixes) ==
  /\ REPLICAS = count
  /\ host_suffix = suffixes
  /\ KEY_LENGTH = [i \in DOMAIN suffixes |-> INITIAL_KEY_LENGTH]
  /\ key_anchor = [i \in DOMAIN suffixes |->
                     generate_anchor(suffixes[i], INITIAL_KEY_LENGTH)[1]]
  /\ MAX = [i \in DOMAIN suffixes |->
              generate_anchor(suffixes[i], INITIAL_KEY_LENGTH)[2]]
  /\ active_ids = [i \in DOMAIN suffixes |-> {}]
  /\ deleted_ids = [i \in DOMAIN suffixes |-> {}]
  /\ calls = [i \in DOMAIN suffixes |-> 0]
  /\ last = [i \in DOMAIN suffixes |-> NoCall]
  /\ prev = [i \in DOMAIN suffixes |-> NoCall]
  /\ minted = [i \in DOMAIN suffixes |-> << >>]
  /\ returned = [i \in DOMAIN suffixes |-> {}]

(* --------------------- cluster of serialized replicas ------------------ *)
\* replica counts tried: one replica, a count that divides 36^2 and one that
\* does not, counts that leave blocks of 2, 1 and 0 integers at length 2
ReplicaCounts == {1, 4, 5, 648, 1296, 46657}

\* one or two correctly configured replicas, each with its own index
PodSets(count) ==
  { S \in SUBSET ((0 .. MaxIndex) \cap (0 .. (count - 1))) :
      S # {} /\ Cardinality(S) <= 2 }

\* a key no replica ever issues, and the keys issued anywhere
ReleaseArgs == { << "z", "z" >> } \cup UNION { returned[j] : j \in Pods }

Init ==
  \E count \in ReplicaCounts : \E S \in PodSets(count) :
    /\ Construct(count, [i \in S |-> str(i)])
    /\ threads = << >>
    /\ codec = << >>
    /\ part = << >>

RECURSIVE Sum(_, _)
\* sum of f over the set S
Sum(f, S) == IF S = {} THEN 0 ELSE LET x == CHOOSE y \in S : TRUE IN f[x] + Sum(f, S \ {x})

TotalCalls == Sum(calls, Pods)

Allocate(i) == TotalCalls < MaxCalls /\ generate_key(i)

Release(i) == TotalCalls < MaxCalls /\ \E k \in ReleaseArgs : delete_id(i, k)

Next ==
  \/ \E i \in Pods : Allocate(i)
  \/ \E i \in Pods : Release(i)

Spec == Init /\ [][Next]_vars

(* ------------- the replica exactly as api.py configures it ------------- *)
\* api.py:43-44 host_suffix = "0", REPLICAS = 1
InitSolo ==
  /\ Construct(1, [i \in {0} |-> << "0" >>])
  /\ threads = << >>
  /\ codec = << >>
  /\ part = << >>

\* one create request after the other, nothing is ever deleted
AllocateSolo == calls[0] < MaxSoloCalls /\ generate_key(0)

NextSolo == AllocateSolo

SpecSolo == InitSolo /\ [][NextSolo]_vars

(* ---------------------- any configuration, one replica ----------------- *)
\* replica counts and host suffixes of a deployment, right or wrong:
\* the last character of a host name is any digit or letter
ConfigCounts == {0, 1, 2}

ConfigSuffixes == { << "0" >>, << "1" >>, << "2" >>, << "x" >> }

InitConfig ==
  \E count \in ConfigCounts : \E suffix \in ConfigSuffixes :
    /\ Construct(count, [i \in {0} |-> suffix])
    /\ threads = << >>
    /\ codec = << >>
    /\ part = << >>

NextConfig == Allocate(0) \/ Release(0)

SpecConfig == InitConfig /\ [][NextConfig]_vars

(* ------------------ the partition of one whole cluster ----------------- *)
\* Every replica of a cluster of REPLICAS pods computes its block for the
\* same key length; the pods of a StatefulSet come up in index order.
InitPartition ==
  \E count \in 1 .. MaxPartCount : \E length \in INITIAL_KEY_LENGTH .. MaxPartLength :
    /\ Construct(count, << >>)
    /\ threads = << >>
    /\ codec = << >>
    /\ part = [length |-> length, blocks |-> << >>]

\* api.py:67 / api.py:174 the replica of the next index calls generate_anchor
ComputeBlock ==
  LET i == Len(part.blocks) IN
    /\ i < REPLICAS
    /\ part' = [part EXCEPT !.blocks = Append(@, generate_anchor(str(i), part.length))]
    /\ UNCHANGED << config, KEY_LENGTH, key_anchor, MAX, active_ids, deleted_ids,
                    calls, last, prev, minted, returned, threads, codec >>

NextPartition == ComputeBlock

SpecPartition == InitPartition /\ [][NextPartition]_vars

(* --------------------------- the encoding step ------------------------- *)
\* an integer of [0, 36^length) waits to be encoded at a length
InitCodec ==
  \E length \in 1 .. MaxCodecLength : \E value \in 0 .. (pow(DIGIT_LENGTH, length) - 1) :
    /\ Construct(1, << >>)
    /\ threads = << >>
    /\ codec = [value |-> value, length |-> length, done |-> FALSE, key |-> << >>]
    /\ part = << >>

\* api.py:178-179 the key of the integer at the length
EncodeStep ==
  /\ ~codec.done
  /\ codec' = [codec EXCEPT !.done = TRUE, !.key = Encode(codec.value, codec.length)]
  /\ UNCHANGED << config, KEY_LENGTH, key_anchor, MAX, active_ids, deleted_ids,
                  calls, last, prev, minted, returned, threads, part >>

NextCodec == EncodeStep

SpecCodec == InitCodec /\ [][NextCodec]_vars

(* ------------------- request threads inside one replica --------------- *)
\* The handlers run on concurrent request threads and share the module
\* globals without a lock.  A thread can be preempted between any two
\* statements, and inside "x += 1" between the load and the store.
ThreadIds == 1 .. NumThreads

\* the replica the threads belong to
Pod == 0

ThreadCounts == {1, 648}

IdleThread == [pc |-> "idle", key |-> << >>, tmp |-> 0]

InitThreads ==
  \E count \in ThreadCounts :
    /\ Construct(count, [i \in {Pod} |-> str(Pod)])
    /\ threads = [t \in ThreadIds |-> IdleThread]
    /\ codec = << >>
    /\ part = << >>

\* thread t moves on to the statement at pc
Goto(t, pc) == threads' = [threads EXCEPT ![t].pc = pc]

\* api.py:294 a create request enters generate_key
CallGenerateKey(t) ==
  /\ threads[t].pc = "idle"
  /\ calls[Pod] < MaxThreadCalls
  /\ calls' = [calls EXCEPT ![Pod] = @ + 1]
  /\ Goto(t, "L167")
  /\ UNCHANGED << config, KEY_LENGTH, key_anchor, MAX, active_ids, deleted_ids,
                  last, prev, minted, returned, idle >>

\* api.py:167 if deleted_ids:
L167(t) ==
  /\ threads[t].pc = "L167"
  /\ Goto(t, IF UsePool(deleted_ids[Pod]) THEN "L169" ELSE "L172")
  /\ UNCHANGED << config, KEY_LENGTH, key_anchor, MAX, active_ids, deleted_ids,
                  calls, last, prev, minted, returned, idle >>

\* api.py:169 key = deleted_ids.pop(); KeyError ends the request when
\* another thread has emptied the set since line 167
L169(t) ==
  /\ threads[t].pc = "L169"
  /\ IF deleted_ids[Pod] = {}
     THEN /\ threads' = [threads EXCEPT ![t] = IdleThread]
          /\ UNCHANGED deleted_ids
     ELSE \E key \in PopChoices(deleted_ids[Pod]) :
            /\ deleted_ids' = [deleted_ids EXCEPT ![Pod] = @ \ {key}]
            /\ threads' = [threads EXCEPT ![t] = [pc |-> "L180", key |-> key, tmp |-> -1]]
  /\ UNCHANGED << config, KEY_LENGTH, key_anchor, MAX, active_ids,
                  calls, last, prev, minted, returned, idle >>

\* api.py:172 if key_anchor >= MAX - 1:
L172(t) ==
  /\ threads[t].pc = "L172"
  /\ Goto(t, IF Exhausted(key_anchor[Pod], MAX[Pod]) THEN "L173" ELSE "L176")
  /\ UNCHANGED << config, KEY_LENGTH, key_anchor, MAX, active_ids, deleted_ids,
                  calls, last, prev, minted, returned, idle >>

\* api.py:173 KEY_LENGTH += 1, the load
L173(t) ==
  /\ threads[t].pc = "L173"
  /\ threads' = [threads EXCEPT ![t].pc = "L173store", ![t].tmp = KEY_LENGTH[Pod]]
  /\ UNCHANGED << config, KEY_LENGTH, key_anchor, MAX, active_ids, deleted_ids,
                  calls, last, prev, minted, returned, idle >>

\* api.py:173 KEY_LENGTH += 1, the store
L173store(t) ==
  /\ threads[t].pc = "L173store"
  /\ KEY_LENGTH' = [KEY_LENGTH EXCEPT ![Pod] = threads[t].tmp + 1]
  /\ Goto(t, "L174")
  /\ UNCHANGED << config, key_anchor, MAX, active_ids, deleted_ids,
                  calls, last, prev, minted, returned, idle >>

\* api.py:174 key_anchor, MAX = generate_anchor(host_suffix, KEY_LENGTH)
L174(t) ==
  /\ threads[t].pc = "L174"
  /\ key_anchor' = [key_anchor EXCEPT ![Pod] =
                      generate_anchor(host_suffix[Pod], KEY_LENGTH[Pod])[1]]
  /\ MAX' = [MAX EXCEPT ![Pod] = generate_anchor(host_suffix[Pod], KEY_LENGTH[Pod])[2]]
  /\ Goto(t, "L176")
  /\ UNCHANGED << config, KEY_LENGTH, active_ids, deleted_ids,
                  calls, last, prev, minted, returned, idle >>

\* api.py:176 key_anchor += 1, the load
L176(t) ==
  /\ threads[t].pc = "L176"
  /\ threads' = [threads EXCEPT ![t].pc = "L176store", ![t].tmp = key_anchor[Pod]]
  /\ UNCHANGED << config, KEY_LENGTH, key_anchor, MAX, active_ids, deleted_ids,
                  calls, last, prev, minted, returned, idle >>

\* api.py:176 key_anchor += 1, the store
L176store(t) ==
  /\ threads[t].pc = "L176store"
  /\ key_anchor' = [key_anchor EXCEPT ![Pod] = threads[t].tmp + 1]
  /\ Goto(t, "L178")
  /\ UNCHANGED << config, KEY_LENGTH, MAX, active_ids, deleted_ids,
                  calls, last, prev, minted, returned, idle >>

\* api.py:178-179 the key of the global key_anchor at the global KEY_LENGTH
L178(t) ==
  /\ threads[t].pc = "L178"
  /\ threads' = [threads EXCEPT ![t] =
                   [pc |-> "L180", key |-> Encode(key_anchor[Pod], KEY_LENGTH[Pod]),
                    tmp |-> key_anchor[Pod]]]
  /\ UNCHANGED << config, KEY_LENGTH, key_anchor, MAX, active_ids, deleted_ids,
                  calls, last, prev, minted, returned, idle >>

\* api.py:180-181 active_ids.add(key); return key
\* (tmp is -1 for a recycled key, the integer minted for a fresh one)
L180(t) ==
  /\ threads[t].pc = "L180"
  /\ active_ids' = [active_ids EXCEPT ![Pod] = @ \cup {threads[t].key}]
  /\ returned' = [returned EXCEPT ![Pod] = @ \cup {threads[t].key}]
  /\ minted' = IF threads[t].tmp = -1 THEN minted
               ELSE [minted EXCEPT ![Pod] =
                      Append(@, [value |-> threads[t].tmp,
                                 length |-> Len(threads[t].key),
                                 key |-> threads[t].key])]
  /\ threads' = [threads EXCEPT ![t] = IdleThread]
  /\ UNCHANGED << config, KEY_LENGTH, key_anchor, MAX, deleted_ids,
                  calls, last, prev, idle >>

\* a delete request enters delete_id with some key
CallDeleteId(t) ==
  /\ threads[t].pc = "idle"
  /\ calls[Pod] < MaxThreadCalls
  /\ calls' = [calls EXCEPT ![Pod] = @ + 1]
  /\ \E k \in ReleaseArgs :
       threads' = [threads EXCEPT ![t] = [pc |-> "L188", key |-> k, tmp |-> 0]]
  /\ UNCHANGED << config, KEY_LENGTH, key_anchor, MAX, active_ids, deleted_ids,
                  last, prev, minted, returned, idle >>

\* api.py:188 if del_id in active_ids: ... else: print(...)
L188(t) ==
  /\ threads[t].pc = "L188"
  /\ IF Tracked(active_ids[Pod], threads[t].key)
     THEN Goto(t, "L189")
     ELSE threads' = [threads EXCEPT ![t] = IdleThread]
  /\ UNCHANGED << config, KEY_LENGTH, key_anchor, MAX, active_ids, deleted_ids,
                  calls, last, prev, minted, returned, idle >>

\* api.py:189 active_ids.remove(del_id); KeyError ends the request when
\* another thread has removed the key since line 188
L189(t) ==
  /\ threads[t].pc = "L189"
  /\ IF threads[t].key \in active_ids[Pod]
     THEN /\ active_ids' = [active_ids EXCEPT ![Pod] = @ \ {threads[t].key}]
          /\ Goto(t, "L190")
     ELSE /\ threads' = [threads EXCEPT ![t] = IdleThread]
          /\ UNCHANGED active_ids
  /\ UNCHANGED << config, KEY_LENGTH, key_anchor, MAX, deleted_ids,
                  calls, last, prev, minted, returned, idle >>

\* api.py:190 deleted_ids.add(del_id)
L190(t) ==
  /\ threads[t].pc = "L190"
  /\ deleted_ids' = [deleted_ids EXCEPT ![Pod] = @ \cup {threads[t].key}]
  /\ threads' = [threads EXCEPT ![t] = IdleThread]
  /\ UNCHANGED << config, KEY_LENGTH, key_anchor, MAX, active_ids,
                  calls, last, prev, minted, returned, idle >>

NextThreads ==
  \E t \in ThreadIds :
    \/ CallGenerateKey(t) \/ L167(t) \/ L169(t) \/ L172(t) \/ L173(t) \/ L173store(t)
    \/ L174(t) \/ L176(t) \/ L176store(t) \/ L178(t) \/ L180(t)
    \/ CallDeleteId(t) \/ L188(t) \/ L189(t) \/ L190(t)

SpecThreads == InitThreads /\ [][NextThreads]_vars

(* ------------------------------ vocabulary ----------------------------- *)
\* the spec's cursor: the next integer to mint (the code stores cursor - 1)
Cursor(i) == key_anchor[i] + 1

\* the spec's limit: one past the last integer of the block (the code stores
\* the last integer of the block, my_max = ID_SPACE * (i + 1) - 1)
Limit(i) == MAX[i] + 1

\* replica i served a call in this step
Served(i) == calls'[i] = calls[i] + 1

(* -------------------------------- C1 ----------------------------------- *)
\* C1: correctly configured replicas (distinct indices in [0, REPLICAS)) never
\* return the same key string: the keys one replica ever returned are
\* disjoint from the keys any other replica ever returned.
C1_ClusterWideUniqueness ==
  \A i, j \in Pods : i # j => returned[i] \cap returned[j] = {}

(* -------------------------------- C2 ----------------------------------- *)
\* C2: on one replica the keys minted from fresh integers are pairwise
\* distinct strings, across releases and length expansions.
C2_FreshKeysDistinct ==
  \A i \in Pods : \A m, n \in 1 .. Len(minted[i]) :
    m # n => minted[i][m].key # minted[i][n].key

\* a replica minted before and after an expansion and also served releases
C2_Witness ==
  \E i \in Pods :
    /\ Len(minted[i]) >= 3
    /\ minted[i][1].length < minted[i][Len(minted[i])].length
    /\ calls[i] > Len(minted[i])

(* -------------------------------- C3 ----------------------------------- *)
\* the half-open range [BlockAnchor, BlockLimit) of a generate_anchor result:
\* the first integer minted is key_anchor + 1, the last of the block is my_max
BlockAnchor(b) == b[1] + 1

BlockLimit(b) == b[2] + 1

BlockSize(b) == IF BlockLimit(b) > BlockAnchor(b) THEN BlockLimit(b) - BlockAnchor(b) ELSE 0

RECURSIVE SizeSum(_)
\* number of integers in the blocks of a sequence of blocks
SizeSum(bs) == IF bs = << >> THEN 0 ELSE BlockSize(Head(bs)) + SizeSum(Tail(bs))

\* no integer lies in two blocks
BlocksDisjoint(bs) ==
  \A m, n \in 1 .. Len(bs) :
    m # n => \/ BlockSize(bs[m]) = 0 \/ BlockSize(bs[n]) = 0
             \/ BlockLimit(bs[m]) <= BlockAnchor(bs[n])
             \/ BlockLimit(bs[n]) <= BlockAnchor(bs[m])

\* every block lies inside [0, top)
BlocksWithin(bs, top) ==
  \A m \in 1 .. Len(bs) : 0 <= BlockAnchor(bs[m]) /\ BlockLimit(bs[m]) <= top

\* all REPLICAS replicas have computed their block
PartitionComplete == part # << >> /\ Len(part.blocks) = REPLICAS

\* C3 as stated: the blocks of replicas 0..REPLICAS-1 at one length are
\* pairwise disjoint and their union is exactly [0, 36^length): disjoint
\* blocks inside [0, 36^length) that hold 36^length integers together.
C3_PartitionCovers ==
  PartitionComplete =>
    /\ BlocksDisjoint(part.blocks)
    /\ BlocksWithin(part.blocks, pow(DIGIT_LENGTH, part.length))
    /\ SizeSum(part.blocks) = pow(DIGIT_LENGTH, part.length)

\* C3 amended: the blocks are pairwise disjoint and their union is exactly
\* [0, REPLICAS * (36^length \div REPLICAS)); the top 36^length % REPLICAS
\* integers of the space belong to no replica.
C3_PartitionCoversMultiple ==
  PartitionComplete =>
    LET top == REPLICAS * (pow(DIGIT_LENGTH, part.length) \div REPLICAS) IN
      /\ BlocksDisjoint(part.blocks)
      /\ BlocksWithin(part.blocks, top)
      /\ SizeSum(part.blocks) = top

\* a complete partition for a replica count that does not divide 36^length
C3_Witness ==
  /\ PartitionComplete
  /\ REPLICAS >= 2
  /\ pow(DIGIT_LENGTH, part.length) % REPLICAS # 0

(* -------------------------------- C4 ----------------------------------- *)
\* C4 as stated: when a replica releases an active key k and its next call
\* is generate_key, that call returns k.
C4_RecycleFirst ==
  \A i \in Pods :
    (last[i].op = "generate_key" /\ prev[i].op = "delete_id" /\ prev[i].found)
      => last[i].ret = prev[i].arg

\* C4 amended: when a replica releases an active key k into an otherwise
\* empty recycle pool and its next call is generate_key, that call returns k.
C4_RecycleFirstSolePool ==
  \A i \in Pods :
    (/\ last[i].op = "generate_key"
     /\ prev[i].op = "delete_id" /\ prev[i].found
     /\ last[i].pool = {prev[i].arg})
      => last[i].ret = prev[i].arg

\* a key was released while another key stayed active, and came back
C4_Witness ==
  \E i \in Pods :
    /\ last[i].op = "generate_key"
    /\ prev[i].op = "delete_id" /\ prev[i].found
    /\ last[i].pool = {prev[i].arg}
    /\ last[i].ret = prev[i].arg
    /\ Cardinality(active_ids[i]) >= 2

(* -------------------------------- C5 ----------------------------------- *)
\* C5: with no releases the replica of count 1, index 0 mints the whole
\* block [0, 1296) in increasing order at length 2, one integer per call
\* ("00" first), and call 1297 is the first at length 3 and returns "000".
C5_WholeBlockBeforeExpansion ==
  \A n \in 1 .. Len(minted[0]) :
    /\ n <= 1296 => minted[0][n].key = Encode(n - 1, 2)
    /\ n = 1297 => minted[0][n].key = << "0", "0", "0" >>

(* -------------------------------- C6 ----------------------------------- *)
\* C6: the key length never decreases; it changes only in a generate_key
\* call that finds the recycle pool empty and the cursor at the block limit,
\* and then it grows by exactly 1.
C6_LengthMonotone ==
  [][ \A i \in Pods :
        /\ KEY_LENGTH'[i] >= KEY_LENGTH[i]
        /\ KEY_LENGTH'[i] # KEY_LENGTH[i] =>
             /\ Served(i) /\ last'[i].op = "generate_key"
             /\ deleted_ids[i] = {}
             /\ Cursor(i) = Limit(i)
             /\ KEY_LENGTH'[i] = KEY_LENGTH[i] + 1 ]_vars

(* -------------------------------- C7 ----------------------------------- *)
\* no request thread is inside generate_key or delete_id
AllIdle == \A t \in ThreadIds : threads[t].pc = "idle"

\* fresh mints of the replica at its current key length
MintsAtLength(i) ==
  Cardinality({ n \in 1 .. Len(minted[i]) : minted[i][n].length = KEY_LENGTH[i] })

\* C7: generate_key calls on concurrent request threads return pairwise
\* distinct fresh keys, and the cursor has advanced once per fresh mint
\* whenever no call is in progress (replica 0: the block starts at 0).
C7_ConcurrentAllocateDistinct ==
  /\ \A m, n \in 1 .. Len(minted[Pod]) :
       m # n => minted[Pod][m].key # minted[Pod][n].key
  /\ AllIdle => Cursor(Pod) = MintsAtLength(Pod)

(* -------------------------------- C8 ----------------------------------- *)
\* the replica count is 0 or the host suffix is no index in [0, REPLICAS)
Misconfigured(i) ==
  REPLICAS = 0 \/ ~ \E n \in 0 .. (REPLICAS - 1) : host_suffix[i] = str(n)

\* C8: a replica with a wrong configuration does not start: it never
\* returns a key.
C8_ConfigErrorsFatal ==
  \A i \in Pods : Misconfigured(i) => returned[i] = {}

(* -------------------------------- C10 ---------------------------------- *)
\* position of a symbol in the alphabet, counted from 0
SymbolIndex(c) == CHOOSE n \in 0 .. (DIGIT_LENGTH - 1) : chars_and_nums[n + 1] = c

RECURSIVE Decode(_)
\* the integer a key denotes: base 36, most significant symbol first
Decode(key) ==
  IF key = << >> THEN 0
  ELSE Decode(SubSeq(key, 1, Len(key) - 1)) * DIGIT_LENGTH + SymbolIndex(key[Len(key)])

\* C10: the key of an integer v of [0, 36^L) at length L has exactly L
\* symbols of the alphabet 0-9a-z and is the zero-padded base-36 numeral of
\* v, most significant symbol first: decoding it gives v back.
C10_CodecRoundTrip ==
  (codec # << >> /\ codec.done) =>
    /\ Len(codec.key) = codec.length
    /\ \A p \in 1 .. Len(codec.key) :
         \E n \in 1 .. DIGIT_LENGTH : codec.key[p] = chars_and_nums[n]
    /\ Decode(codec.key) = codec.value

\* an integer that needs padding and has two different symbols was encoded
C10_Witness ==
  /\ codec # << >> /\ codec.done
  /\ codec.length = 2 /\ codec.value = 35
  /\ codec.key = << "0", "z" >>

(* -------------------------------- C9 ----------------------------------- *)
\* C9: delete_id of a key that is not active (already released, or never
\* issued by this replica) completes and leaves the active set, the recycle
\* pool, the cursor, the length and the block unchanged.
C9_ReleaseInactiveNoOp ==
  [][ \A i \in Pods :
        (Served(i) /\ last'[i].op = "delete_id" /\ last'[i].arg \notin active_ids[i])
          => /\ active_ids'[i] = active_ids[i]
             /\ deleted_ids'[i] = deleted_ids[i]
             /\ key_anchor'[i] = key_anchor[i]
             /\ KEY_LENGTH'[i] = KEY_LENGTH[i]
             /\ MAX'[i] = MAX[i] ]_vars

\* a replica released the same key twice in a row
C9_Witness ==
  \E i \in Pods :
    /\ prev[i].op = "delete_id" /\ prev[i].found
    /\ last[i].op = "delete_id" /\ ~last[i].found
    /\ last[i].arg = prev[i].arg
    /\ last[i].arg \in deleted_ids[i]

(* -------------------------------- C11 ---------------------------------- *)
\* the index of a correctly configured replica: the i of api.py:61
IndexOf(i) == CHOOSE n \in 0 .. (REPLICAS - 1) : host_suffix[i] = str(n)

\* the block generate_anchor gives replica i at a key length
OwnBlock(i, length) == generate_anchor(host_suffix[i], length)

\* C11: on a correctly configured replica the cursor (key_anchor + 1) stays
\* within anchor <= cursor <= limit of the block [anchor, limit) of the
\* current length, and every integer minted fresh lies in the block of the
\* length it was minted at, hence in [0, 36^length).
C11_CursorInvariant ==
  \A i \in Pods :
    /\ BlockAnchor(OwnBlock(i, KEY_LENGTH[i])) <= Cursor(i)
    /\ Cursor(i) <= BlockLimit(OwnBlock(i, KEY_LENGTH[i]))
    /\ \A n \in 1 .. Len(minted[i]) :
         LET m == minted[i][n] IN
           /\ BlockAnchor(OwnBlock(i, m.length)) <= m.value
           /\ m.value < BlockLimit(OwnBlock(i, m.length))
           /\ 0 <= m.value /\ m.value < pow(DIGIT_LENGTH, m.length)

(* -------------------------------- C12 ---------------------------------- *)
\* the n-th fresh mint of replica i is its first at that key length
FirstAtLength(i, n) == n = 1 \/ minted[i][n - 1].length < minted[i][n].length

\* C12: the first key a replica mints at a length, at start and after each
\* expansion, encodes (36^length \div REPLICAS) * index at that length.
C12_FirstKeyIsBlockBottom ==
  \A i \in Pods : \A n \in 1 .. Len(minted[i]) :
    FirstAtLength(i, n) =>
      LET m == minted[i][n]
          bottom == (pow(DIGIT_LENGTH, m.length) \div REPLICAS) * IndexOf(i)
      IN  m.value = bottom /\ m.key = Encode(bottom, m.length)

\* a replica of index above 0 minted keys at length 2, expanded, and minted
\* its first key of length 3
C12_Witness ==
  \E i \in Pods : \E n \in 2 .. Len(minted[i]) :
    /\ IndexOf(i) > 0
    /\ FirstAtLength(i, n)
    /\ minted[i][n].value > 0

(* -------------------------------- C13 ---------------------------------- *)
\* every symbol of the key is one of 0-9a-z
InAlphabet(key) ==
  \A p \in 1 .. Len(key) : \E n \in 1 .. DIGIT_LENGTH : key[p] = chars_and_nums[n]

\* C13 as stated: every key generate_key returns, fresh or recycled, is a
\* string over 0-9a-z of exactly the key length current at the return.
C13_ReturnedKeyHasCurrentLength ==
  \A i \in Pods :
    last[i].op = "generate_key" =>
      InAlphabet(last[i].ret) /\ Len(last[i].ret) = KEY_LENGTH[i]

\* C13 amended: every key generate_key returns is a string over 0-9a-z; a
\* fresh key has exactly the current key length, a recycled key has at least
\* the initial and at most the current key length.
C13_ReturnedKeyLength ==
  \A i \in Pods :
    last[i].op = "generate_key" =>
      /\ InAlphabet(last[i].ret)
      /\ last[i].fresh => Len(last[i].ret) = KEY_LENGTH[i]
      /\ ~last[i].fresh =>
           /\ INITIAL_KEY_LENGTH <= Len(last[i].ret)
           /\ Len(last[i].ret) <= KEY_LENGTH[i]

\* a key minted before an expansion came back from the recycle pool after it
C13_Witness ==
  \E i \in Pods :
    /\ last[i].op = "generate_key" /\ ~last[i].fresh
    /\ Len(last[i].ret) < KEY_LENGTH[i]
    /\ \E n \in 1 .. Len(minted[i]) : minted[i][n].length = KEY_LENGTH[i]

(* -------------------------------- C14 ---------------------------------- *)
\* the cursor, the key length and the block bounds of replica i stay
FrameOfBlock(i) ==
  /\ key_anchor'[i] = key_anchor[i]
  /\ KEY_LENGTH'[i] = KEY_LENGTH[i]
  /\ MAX'[i] = MAX[i]

\* C14: a generate_key served from the recycle pool removes exactly the
\* returned key from the pool, adds it to the active set and leaves cursor,
\* length and block bounds alone; a delete_id never changes cursor, length
\* or block bounds.
C14_FrameOfNonMinting ==
  [][ \A i \in Pods :
        Served(i) =>
          /\ (last'[i].op = "generate_key" /\ ~last'[i].fresh) =>
               /\ last'[i].ret \in deleted_ids[i]
               /\ deleted_ids'[i] = deleted_ids[i] \ {last'[i].ret}
               /\ active_ids'[i] = active_ids[i] \cup {last'[i].ret}
               /\ FrameOfBlock(i)
          /\ last'[i].op = "delete_id" => FrameOfBlock(i) ]_vars

\* a recycled key was handed out again after fresh mints and a release
C14_Witness ==
  \E i \in Pods :
    /\ last[i].op = "generate_key" /\ ~last[i].fresh
    /\ prev[i].op = "delete_id" /\ prev[i].found
    /\ last[i].ret \in active_ids[i] /\ last[i].ret \notin deleted_ids[i]
    /\ Len(minted[i]) >= 2

(* -------------------------------- C15 ---------------------------------- *)
\* C15: a key in the recycle pool stays there until a generate_key returns
\* it, whatever is released meanwhile, and while the pool is non-empty no
\* call advances the cursor, expands the length or mints a fresh integer.
C15_PoolBeforeFresh ==
  [][ \A i \in Pods :
        /\ \A k \in deleted_ids[i] :
             \/ k \in deleted_ids'[i]
             \/ Served(i) /\ last'[i].op = "generate_key" /\ last'[i].ret = k
        /\ deleted_ids[i] # {} =>
             /\ key_anchor'[i] = key_anchor[i]
             /\ KEY_LENGTH'[i] = KEY_LENGTH[i]
             /\ minted'[i] = minted[i] ]_vars

\* two keys were released; the second generate_key after that returned the
\* key that had waited in the pool through the first one
C15_Witness ==
  \E i \in Pods :
    /\ prev[i].op = "generate_key" /\ ~prev[i].fresh
    /\ last[i].op = "generate_key" /\ ~last[i].fresh
    /\ last[i].ret \in prev[i].pool
    /\ Cardinality(prev[i].pool) >= 2

(* -------------------------------- C16 ---------------------------------- *)
\* the active set and the recycle pool of every replica are disjoint and
\* hold only keys that generate_key has returned
C16_Sets ==
  \A i \in Pods :
    /\ active_ids[i] \cap deleted_ids[i] = {}
    /\ (active_ids[i] \cup deleted_ids[i]) \subseteq returned[i]

\* the key a generate_key returns was not active when the call started
C16_Step ==
  \A i \in Pods :
    (Served(i) /\ last'[i].op = "generate_key") => last'[i].ret \notin active_ids[i]

\* C16: in every state reached by serialized calls the active set and the
\* recycle pool are disjoint and hold only keys returned earlier, and no
\* generate_key returns a key that is active at the call.
C16_Bookkeeping == []C16_Sets /\ [][C16_Step]_vars

\* a replica holds active and released keys and has just reissued one
C16_Witness ==
  \E i \in Pods :
    /\ last[i].op = "generate_key" /\ ~last[i].fresh
    /\ deleted_ids[i] # {}
    /\ Cardinality(active_ids[i]) >= 2

====
